---- MODULE Spec2Model ----
(***************************************************************************)
(* The clean -> load -> validate pipeline of the Tumblr ETL repository:    *)
(* DataCleaner (src/src/cleaner.py), DataLoader (src/src/loader.py) and    *)
(* the stage callables of the DAG (src/airflow_dag.py).                    *)
(*                                                                         *)
(* Strings that the code inspects (post_text, tags) are sequences of       *)
(* one-character strings, so that strip, split and lower are computed.     *)
(* A missing cell (pandas NaN / None) of a text column is NaN; a missing   *)
(* cell of a numeric column is the empty sequence, a present one <<n>>.    *)
(* A DataFrame is [columns, rows]; each row carries its index label idx,   *)
(* which pandas keeps through every filter.                                *)
(***************************************************************************)
EXTENDS Integers, Sequences, FiniteSets, TLC

VARIABLES
    rawFile,            \* data/tumblr_posts.csv as read by load_data: [columns, rows]
    df,                 \* cleaner.df after clean_all (NoFrame before)
    cleanResult,        \* clean_tumblr_data: [status, warning, steps]
    cleanedFile,        \* data/cleaned_tumblr_data.csv: [exists, rows]
    dbExists,           \* data/output.db exists
    posts,              \* table posts: [columns, unique, rows]
    tags,               \* table tags: [seq, rows]; seq is its AUTOINCREMENT counter
    post_tags,          \* table post_tags: set of <<post_id, tag_id>>
    summary_statistics, \* table summary_statistics: sequence of rows
    loadLog,            \* history: one entry per run of the load stage
    validation,         \* validate_pipeline: [verdict, warning, post_count, valid_posts]
    conn                \* the store connection of the latest run of each stage:
                        \* [loader, validator], each "none", "open" or "closed"

vars == <<rawFile, df, cleanResult, cleanedFile, dbExists, posts, tags, post_tags,
          summary_statistics, loadLog, validation, conn>>

----------------------------------------------------------------------------
(* Bounds of the model *)

MaxRecords == 2
MaxSnapRows == 2
MaxRuns == 2
MaxStorePosts == 101
MaxNotes == 101
MaxTags == 3
MaxLinkRows == 3
MaxFaultRuns == 2

(* Program constants *)

min_records == 100
min_word_count == 5
max_word_count == 10000
MinPosts == 100

----------------------------------------------------------------------------
(* Strings *)

NaN == <<"NaN">>

isna(x) == x = NaN

notna(x) == x # NaN

IsSpace(c) == c = " "

RECURSIVE lstrip(_)
lstrip(s) == IF s # <<>> /\ IsSpace(Head(s)) THEN lstrip(Tail(s)) ELSE s

RECURSIVE rstrip(_)
rstrip(s) ==
    IF s # <<>> /\ IsSpace(s[Len(s)]) THEN rstrip(SubSeq(s, 1, Len(s) - 1)) ELSE s

strip(s) == rstrip(lstrip(s))

\* str.replace(r'\s+', ' '): every run of whitespace becomes one space
RECURSIVE collapse_ws(_)
collapse_ws(s) ==
    IF s = <<>> THEN <<>>
    ELSE IF IsSpace(Head(s))
         THEN <<" ">> \o collapse_ws(lstrip(s))
         ELSE <<Head(s)>> \o collapse_ws(Tail(s))

\* the first whitespace-delimited token of s, s starting with a non-space
RECURSIVE first_token(_)
first_token(s) ==
    IF s = <<>> \/ IsSpace(Head(s)) THEN <<>>
    ELSE <<Head(s)>> \o first_token(Tail(s))

\* str.split() without arguments: the whitespace-delimited tokens
RECURSIVE split(_)
split(s) ==
    LET t == lstrip(s)
    IN IF t = <<>> THEN <<>>
       ELSE LET w == first_token(t)
            IN <<w>> \o split(SubSeq(t, Len(w) + 1, Len(t)))

LowerChar(c) ==
    CASE c = "A" -> "a"
      [] c = "D" -> "d"
      [] c = "P" -> "p"
      [] OTHER -> c

lower(s) == [i \in 1..Len(s) |-> LowerChar(s[i])]

\* sep.join(items)
RECURSIVE join(_, _)
join(sep, items) ==
    IF items = <<>> THEN <<>>
    ELSE IF Len(items) = 1 THEN items[1]
    ELSE items[1] \o sep \o join(sep, Tail(items))

\* n one-letter words separated by single spaces
RECURSIVE Words(_)
Words(n) == IF n = 0 THEN <<>> ELSE IF n = 1 THEN <<"w">> ELSE <<"w", " ">> \o Words(n - 1)

----------------------------------------------------------------------------
(* Tag payloads.  A payload is held by the shape of its text: "list" is a  *)
(* bracketed Python list literal of the strings items ('[]' when items is  *)
(* empty), "bad" starts with '[' and is no literal, "delim" is the strings *)
(* items joined by ','.                                                    *)

NaNTags == [kind |-> "nan", items |-> <<>>]

EmptyList == [kind |-> "list", items |-> <<>>]

ListOf(items) == [kind |-> "list", items |-> items]

DelimOf(items) == [kind |-> "delim", items |-> items]

BadList == [kind |-> "bad", items |-> <<>>]

startswith_bracket(p) == p.kind \in {"list", "bad"}

Art == <<"A", "r", "t">>

art == <<"a", "r", "t">>

Design == <<" ", "D", "e", "s", " ">>

Blank == <<" ">>

TagStrings == {Art, art, Design, Blank}

----------------------------------------------------------------------------
(* DataCleaner *)

NoFrame == [columns |-> {}, post_text_dtype |-> "object", rows |-> <<>>]

RawColumns == {"post_url", "post_text", "post_type", "notes_count", "tags"}

Pic == <<"P", "i", "c">>

photo == <<"p", "h", "o", "t", "o">>

unknown == <<"u", "n", "k", "n", "o", "w", "n">>

\* the rows at the positions K, in order
RECURSIVE Pick(_, _, _)
Pick(rows, K, i) ==
    IF i > Len(rows) THEN <<>>
    ELSE (IF i \in K THEN <<rows[i]>> ELSE <<>>) \o Pick(rows, K, i + 1)

\* pd.read_csv: the index labels are 0 .. n-1; a column in which every cell is
\* missing is read as float64, any other text column as object
load_data(file) ==
    [columns |-> file.columns,
     post_text_dtype |->
        IF Len(file.rows) > 0 /\ \A i \in 1..Len(file.rows) : isna(file.rows[i].post_text)
        THEN "float64" ELSE "object",
     rows |-> [i \in 1..Len(file.rows) |->
                  [idx |-> i - 1,
                   post_url |-> file.rows[i].post_url,
                   post_text |-> file.rows[i].post_text,
                   post_type |-> file.rows[i].post_type,
                   notes_count |-> file.rows[i].notes_count,
                   tags |-> file.rows[i].tags]]]

remove_duplicates_keep_last(d) ==
    [d EXCEPT !.rows =
        Pick(d.rows,
             {i \in 1..Len(d.rows) :
                 \A j \in (i + 1)..Len(d.rows) : d.rows[j].post_url # d.rows[i].post_url},
             1)]

\* drop_duplicates(subset=['post_url'], keep='first')
remove_duplicates(d) ==
    [d EXCEPT !.rows =
        Pick(d.rows,
             {i \in 1..Len(d.rows) :
                 \A j \in 1..(i - 1) : d.rows[j].post_url # d.rows[i].post_url},
             1)]

\* self.df['post_text'].str: the .str accessor of a float64 column raises
\* AttributeError
remove_empty_posts_raises(d) == d.post_text_dtype = "float64"

remove_empty_posts(d) ==
    [d EXCEPT !.rows =
        Pick(d.rows,
             {i \in 1..Len(d.rows) :
                 notna(d.rows[i].post_text) /\ Len(d.rows[i].post_text) > 0},
             1)]

\* df['tags'] raises KeyError when the frame has no such column
handle_missing_values_raises(d) == "tags" \notin d.columns

handle_missing_values(d) ==
    [d EXCEPT !.rows =
        [i \in 1..Len(d.rows) |->
            [d.rows[i] EXCEPT
                !.notes_count = IF Len(@) = 0 THEN 0 ELSE Head(@),
                !.post_type = IF isna(@) THEN unknown ELSE @,
                !.tags = IF @ = NaNTags THEN EmptyList ELSE @]]]

clean_text(d) ==
    [d EXCEPT !.rows =
        [i \in 1..Len(d.rows) |->
            [d.rows[i] EXCEPT !.post_text = collapse_ws(strip(@))]]]

\* type_mapping, as .replace applies it: a value that is no key is kept
type_mapping(t) ==
    CASE t = <<"i", "m", "a", "g", "e">> -> photo
      [] t = <<"p", "i", "c", "t", "u", "r", "e">> -> photo
      [] t = <<"p", "i", "c">> -> photo
      [] t = <<"t", "x", "t">> -> <<"t", "e", "x", "t">>
      [] t = <<"q", "u", "o", "t", "a", "t", "i", "o", "n">> -> <<"q", "u", "o", "t", "e">>
      [] OTHER -> t

standardize_post_types(d) ==
    [d EXCEPT !.rows =
        [i \in 1..Len(d.rows) |->
            [d.rows[i] EXCEPT !.post_type = IF isna(@) THEN @ ELSE type_mapping(lower(@))]]]

count_tags(tags_str) ==
    IF tags_str = NaNTags \/ tags_str = EmptyList THEN 0
    ELSE IF startswith_bracket(tags_str)
         THEN IF tags_str.kind = "bad" THEN 0 ELSE Len(tags_str.items)
         ELSE 0

tags_to_string(tags_str) ==
    IF tags_str = NaNTags \/ tags_str = EmptyList THEN <<>>
    ELSE IF startswith_bracket(tags_str)
         THEN IF tags_str.kind = "bad" THEN <<>>
              ELSE join(<<",", " ">>, tags_str.items)
         ELSE <<>>

categorize_engagement_le(notes) ==
    IF notes = 0 THEN "no_engagement"
    ELSE IF notes <= 10 THEN "low"
    ELSE IF notes < 100 THEN "medium"
    ELSE "high"

categorize_engagement(notes) ==
    IF notes = 0 THEN "no_engagement"
    ELSE IF notes < 10 THEN "low"
    ELSE IF notes < 100 THEN "medium"
    ELSE "high"

add_derived_features(d) ==
    [columns |-> d.columns \cup {"word_count", "tag_count", "tags_str", "engagement_level"},
     post_text_dtype |-> d.post_text_dtype,
     rows |-> [i \in 1..Len(d.rows) |->
                  [idx |-> d.rows[i].idx,
                   post_url |-> d.rows[i].post_url,
                   post_text |-> d.rows[i].post_text,
                   post_type |-> d.rows[i].post_type,
                   notes_count |-> d.rows[i].notes_count,
                   tags |-> d.rows[i].tags,
                   word_count |-> Len(split(d.rows[i].post_text)),
                   tag_count |-> count_tags(d.rows[i].tags),
                   tags_str |-> tags_to_string(d.rows[i].tags),
                   engagement_level |-> categorize_engagement(d.rows[i].notes_count)]]]

\* the band filter with the lower end left out of the band
filter_quality_posts_strict(d, min_wc, max_wc) ==
    [d EXCEPT !.rows =
        Pick(d.rows,
             {i \in 1..Len(d.rows) :
                 d.rows[i].word_count > min_wc /\ d.rows[i].word_count <= max_wc},
             1)]

\* df[(df['word_count'] >= min_word_count) & (df['word_count'] <= max_word_count)]
filter_quality_posts(d, min_wc, max_wc) ==
    [d EXCEPT !.rows =
        Pick(d.rows,
             {i \in 1..Len(d.rows) :
                 d.rows[i].word_count >= min_wc /\ d.rows[i].word_count <= max_wc},
             1)]

\* the check that ends clean_all, made fatal
min_records_check_fatal(n, minimum) == [raises |-> n < minimum, warning |-> FALSE]

\* the check that ends clean_all: below min_records it prints a warning
min_records_check(n, minimum) == [raises |-> FALSE, warning |-> n < minimum]

\* the steps of clean_all with remove_empty_posts ahead of remove_duplicates
cleaning_steps_empty_first ==
    <<"remove_empty_posts", "remove_duplicates", "handle_missing_values", "clean_text",
      "standardize_post_types", "add_derived_features", "filter_quality_posts">>

\* the steps of clean_all after load_data, in the order of its calls
cleaning_steps ==
    <<"remove_duplicates", "remove_empty_posts", "handle_missing_values", "clean_text",
      "standardize_post_types", "add_derived_features", "filter_quality_posts">>

\* the exception a step raises on frame d, "none" when it raises none
step_error(step, d) ==
    CASE step = "remove_empty_posts" /\ remove_empty_posts_raises(d) -> "AttributeError"
      [] step = "handle_missing_values" /\ handle_missing_values_raises(d) -> "KeyError"
      [] OTHER -> "none"

\* one call of clean_all: self.<step>()
run_step(step, d) ==
    CASE step = "remove_duplicates" -> remove_duplicates(d)
      [] step = "remove_empty_posts" -> remove_empty_posts(d)
      [] step = "handle_missing_values" -> handle_missing_values(d)
      [] step = "clean_text" -> clean_text(d)
      [] step = "standardize_post_types" -> standardize_post_types(d)
      [] step = "add_derived_features" -> add_derived_features(d)
      [] step = "filter_quality_posts" ->
            filter_quality_posts(d, min_word_count, max_word_count)

\* the calls of clean_all one after the other; done is the steps that returned
RECURSIVE run_steps(_, _, _)
run_steps(steps, d, done) ==
    IF steps = <<>> THEN [error |-> "none", df |-> d, steps |-> done]
    ELSE IF step_error(Head(steps), d) # "none"
         THEN [error |-> step_error(Head(steps), d), df |-> d, steps |-> done]
         ELSE run_steps(Tail(steps), run_step(Head(steps), d), Append(done, Head(steps)))

\* clean_all: [error, df, warning, steps]; error # "none" when a step raised
clean_all(file, minimum) ==
    LET r == run_steps(cleaning_steps, load_data(file), <<>>)
        chk == min_records_check(Len(r.df.rows), minimum)
    IN IF r.error # "none"
       THEN [error |-> r.error, df |-> r.df, warning |-> FALSE, steps |-> r.steps]
       ELSE IF chk.raises
       THEN [error |-> "ValueError", df |-> r.df, warning |-> FALSE, steps |-> r.steps]
       ELSE [error |-> "none", df |-> r.df, warning |-> chk.warning, steps |-> r.steps]

NoFile == [exists |-> FALSE, rows |-> <<>>]

\* df.to_csv(output_file, index=False): the index labels are not written
to_csv(d) ==
    [exists |-> TRUE,
     rows |-> [i \in 1..Len(d.rows) |->
                  [post_url |-> d.rows[i].post_url,
                   post_text |-> d.rows[i].post_text,
                   post_type |-> d.rows[i].post_type,
                   notes_count |-> d.rows[i].notes_count,
                   tags |-> d.rows[i].tags,
                   word_count |-> d.rows[i].word_count,
                   tag_count |-> d.rows[i].tag_count,
                   tags_str |-> d.rows[i].tags_str,
                   engagement_level |-> d.rows[i].engagement_level]]]

\* the clean stage: clean_all, then save_cleaned_data; an exception fails the task
clean_tumblr_data ==
    LET r == clean_all(rawFile, min_records)
    IN /\ df' = r.df
       /\ IF r.error = "none"
          THEN /\ cleanedFile' = to_csv(r.df)
               /\ cleanResult' = [status |-> "ok", warning |-> r.warning, steps |-> r.steps]
          ELSE /\ cleanedFile' = cleanedFile
               /\ cleanResult' = [status |-> r.error, warning |-> FALSE, steps |-> r.steps]

----------------------------------------------------------------------------
(* DataLoader *)

NoTable == [columns |-> {}, unique |-> {}, rows |-> <<>>]

posts_columns ==
    {"post_url", "post_text", "post_text_clean", "post_type", "notes_count",
     "word_count", "char_count", "has_image", "image_url", "tag_count", "tags_str",
     "engagement_level", "scrape_date", "timestamp"}

\* CREATE TABLE IF NOT EXISTS posts (...): an existing table is left as it is
create_tables(p) ==
    IF p = NoTable
    THEN [columns |-> {"id"} \cup posts_columns \cup {"created_at"},
          unique |-> {"post_url"},
          rows |-> <<>>]
    ELSE p

\* pd.read_csv of the cleaned file: an empty cell is read as NaN
read_csv(file) ==
    [columns |-> {"post_url", "post_text", "post_type", "notes_count", "tags", "word_count",
                  "tag_count", "tags_str", "engagement_level"},
     post_text_dtype |-> "object",
     rows |-> [i \in 1..Len(file.rows) |->
                  [idx |-> i - 1,
                   post_url |-> file.rows[i].post_url,
                   post_text |-> file.rows[i].post_text,
                   post_type |-> file.rows[i].post_type,
                   notes_count |-> file.rows[i].notes_count,
                   tags |-> file.rows[i].tags,
                   word_count |-> file.rows[i].word_count,
                   tag_count |-> file.rows[i].tag_count,
                   tags_str |-> IF file.rows[i].tags_str = <<>> THEN NaN ELSE file.rows[i].tags_str,
                   engagement_level |-> file.rows[i].engagement_level]]]

\* df[posts_columns]: the modelled columns of the posts frame
posts_df(d) ==
    [i \in 1..Len(d.rows) |->
        [post_url |-> d.rows[i].post_url,
         post_text |-> d.rows[i].post_text,
         post_type |-> d.rows[i].post_type,
         notes_count |-> d.rows[i].notes_count,
         word_count |-> d.rows[i].word_count,
         tag_count |-> d.rows[i].tag_count,
         tags_str |-> d.rows[i].tags_str,
         engagement_level |-> d.rows[i].engagement_level]]

\* to_sql with if_exists='append': the rows are added to the table as it is
to_sql_append(table, rows) ==
    [table EXCEPT !.rows =
        @ \o [k \in 1..Len(rows) |->
                 IF "id" \in table.columns
                 THEN [id |-> Len(table.rows) + k] @@ rows[k]
                 ELSE rows[k]]]

\* to_sql(..., if_exists='replace', index=False): the table is dropped and
\* created again from the frame: its columns, no id, no constraint
to_sql(table, rows) == [columns |-> posts_columns, unique |-> {}, rows |-> rows]

\* lines 115-121: the tags of a payload, or the exception eval raises
parse_tags(p) ==
    IF startswith_bracket(p)
    THEN IF p.kind = "bad" THEN [raises |-> TRUE, tags |-> <<>>]
         ELSE [raises |-> FALSE, tags |-> p.items]
    ELSE [raises |-> FALSE, tags |-> [i \in 1..Len(p.items) |-> strip(p.items[i])]]

\* SELECT id FROM posts WHERE post_url = ?, then fetchone()
select_post_id(p, url) ==
    IF "id" \notin p.columns
    THEN [raises |-> TRUE, found |-> FALSE, id |-> 0]
    ELSE LET hits == {i \in 1..Len(p.rows) : p.rows[i].post_url = url}
         IN IF hits = {}
            THEN [raises |-> FALSE, found |-> FALSE, id |-> 0]
            ELSE [raises |-> FALSE, found |-> TRUE,
                  id |-> p.rows[CHOOSE i \in hits : \A j \in hits : i <= j].id]

\* INSERT OR IGNORE INTO tags (tag_name) VALUES (?)
insert_or_ignore_tag(tg, name) ==
    IF \E r \in tg.rows : r.tag_name = name THEN tg
    ELSE [seq |-> tg.seq + 1,
          rows |-> tg.rows \cup {[id |-> tg.seq + 1, tag_name |-> name]}]

\* lines 129-143, for one tag of a post; st is [tags, post_tags, tag_id_map, error]
load_one_tag(st, post_id, tag) ==
    IF tag # <<>> /\ strip(tag) # <<>>
    THEN LET t == lower(strip(tag))
         IN IF t \notin DOMAIN st.tag_id_map
            THEN LET tg == insert_or_ignore_tag(st.tags, t)
                     tag_id == (CHOOSE r \in tg.rows : r.tag_name = t).id
                 IN [st EXCEPT !.tags = tg,
                                !.post_tags = @ \cup {<<post_id, tag_id>>},
                                !.tag_id_map = (t :> tag_id) @@ @]
            ELSE [st EXCEPT !.post_tags = @ \cup {<<post_id, st.tag_id_map[t]>>}]
    ELSE st

RECURSIVE load_tag_list(_, _, _)
load_tag_list(st, post_id, tag_list) ==
    IF tag_list = <<>> THEN st
    ELSE load_tag_list(load_one_tag(st, post_id, Head(tag_list)), post_id, Tail(tag_list))

\* a handler that lets the exception of a row out of load_tags
except_reraise(st) == [st EXCEPT !.error = "Exception"]

\* except Exception as e: print(...); continue
except_continue(st) == st

\* lines 113-147, for one row of the frame: eval and the SELECT raise before
\* anything is written for the row
load_tags_row(st, p, row) ==
    IF row.tags # NaNTags /\ row.tags # EmptyList
    THEN LET parsed == parse_tags(row.tags)
         IN IF parsed.raises THEN except_continue(st)
            ELSE LET result == select_post_id(p, row.post_url)
                 IN IF result.raises THEN except_continue(st)
                    ELSE IF ~result.found THEN st
                    ELSE load_tag_list(st, result.id, parsed.tags)
    ELSE st

\* for idx, row in df.iterrows(): an exception that leaves the loop ends it
RECURSIVE load_tags_rows(_, _, _)
load_tags_rows(st, p, rows) ==
    IF rows = <<>> \/ st.error # "none" THEN st
    ELSE load_tags_rows(load_tags_row(st, p, Head(rows)), p, Tail(rows))

\* load_tags: both tables are emptied (AUTOINCREMENT keeps its counter), then
\* filled from the frame and committed; an exception leaves before the commit
load_tags(p, tg, d) ==
    load_tags_rows([tags |-> [seq |-> tg.seq, rows |-> {}],
                    post_tags |-> {},
                    tag_id_map |-> <<>>,
                    error |-> "none"],
                   p, d.rows)

\* a statistics step that keeps only the row of the latest run
generate_summary_statistics_overwrite(ss, p) ==
    <<[id |-> 1, total_posts |-> Len(p.rows)]>>

\* generate_summary_statistics: one INSERT, computed from the posts table
generate_summary_statistics(ss, p) ==
    Append(ss, [id |-> Len(ss) + 1, total_posts |-> Len(p.rows)])

\* the steps of load_all that the environment can make raise (the store
\* cannot be opened, the file cannot be parsed, a statement fails)
LoadFaults ==
    {"none", "connect", "read_csv", "to_sql", "load_tags",
     "generate_summary_statistics", "verify_data"}

\* load_all: connect, create_tables, load_posts, load_tags,
\* generate_summary_statistics, verify_data (which only reads).  The result
\* is the store as committed when load_all left, the step at which it left,
\* the exception it raised and self.conn at that moment; fault is the step
\* that the environment makes raise.
load_all(file, fault) ==
    LET p1 == create_tables(posts)
        d == read_csv(file)
        p2 == to_sql(p1, posts_df(d))
        st == load_tags(p2, tags, d)
        ss == generate_summary_statistics(summary_statistics, p2)
        raised(step, error, p, tg, pt) ==
            [error |-> error, left_at |-> step, conn |-> "open", posts |-> p,
             tags |-> tg, post_tags |-> pt, summary_statistics |-> summary_statistics]
    IN IF fault = "connect"
       THEN [error |-> "OperationalError", left_at |-> "connect", conn |-> "none",
             posts |-> posts, tags |-> tags, post_tags |-> post_tags,
             summary_statistics |-> summary_statistics]
       ELSE IF ~file.exists
       THEN raised("read_csv", "FileNotFoundError", p1, tags, post_tags)
       ELSE IF fault = "read_csv"
       THEN raised("read_csv", "ParserError", p1, tags, post_tags)
       ELSE IF fault = "to_sql"
       THEN raised("to_sql", "OperationalError", p1, tags, post_tags)
       ELSE IF fault = "load_tags"
       THEN raised("load_tags", "OperationalError", p2, tags, post_tags)
       ELSE IF st.error # "none"
       THEN raised("load_tags", st.error, p2, tags, post_tags)
       ELSE IF fault = "generate_summary_statistics"
       THEN raised("generate_summary_statistics", "OperationalError",
                   p2, st.tags, st.post_tags)
       ELSE IF fault = "verify_data"
       THEN [error |-> "OperationalError", left_at |-> "verify_data", conn |-> "open",
             posts |-> p2, tags |-> st.tags, post_tags |-> st.post_tags,
             summary_statistics |-> ss]
       ELSE [error |-> "none", left_at |-> "return", conn |-> "open",
             posts |-> p2, tags |-> st.tags, post_tags |-> st.post_tags,
             summary_statistics |-> ss]

\* DataLoader.close: if self.conn: self.conn.close()
close(c) == IF c = "open" THEN "closed" ELSE c

\* a close that runs only when load_all returned
close_unless_raised(c, error) == IF error = "none" THEN close(c) ELSE c

\* finally: loader.close(), after the return and after the raise
finally_close(c, error) == close(c)

\* the load stage: load_all under try / finally close; the run is logged
load_to_database(file, fault) ==
    LET r == load_all(file, fault)
    IN /\ dbExists' = (dbExists \/ r.conn # "none")
       /\ posts' = r.posts
       /\ tags' = r.tags
       /\ post_tags' = r.post_tags
       /\ summary_statistics' = r.summary_statistics
       /\ conn' = [conn EXCEPT !.loader = finally_close(r.conn, r.error)]
       /\ loadLog' = Append(loadLog,
                            [csv |-> file,
                             error |-> r.error,
                             left_at |-> r.left_at,
                             posts |-> r.posts.rows,
                             n_posts |-> Len(r.posts.rows),
                             n_tags |-> Cardinality(r.tags.rows),
                             n_post_tags |-> Cardinality(r.post_tags)])

----------------------------------------------------------------------------
(* validate_pipeline *)

NotValidated == [verdict |-> "none", warning |-> FALSE, post_count |-> 0, valid_posts |-> 0]

insufficient_le(post_count) == post_count <= MinPosts

\* finally: conn.close(), after the last statement and after a raise
conn_close(c) == "closed"

\* if post_count < 100: raise ValueError
insufficient(post_count) == post_count < MinPosts

low_quality_fatal(valid_posts, post_count) ==
    [raises |-> 5 * valid_posts < 4 * post_count, warning |-> FALSE]

\* quality_ratio = valid_posts / post_count; below 0.8 a warning is printed
low_quality(valid_posts, post_count) ==
    [raises |-> FALSE, warning |-> 5 * valid_posts < 4 * post_count]

\* validate_pipeline: the store is opened after the check of its file, and
\* closed by the finally of the try that holds the queries and the checks
validate_pipeline ==
    IF ~dbExists
    THEN /\ validation' = [verdict |-> "FileNotFoundError", warning |-> FALSE,
                           post_count |-> 0, valid_posts |-> 0]
         /\ conn' = [conn EXCEPT !.validator = "none"]
    ELSE LET post_count == Len(posts.rows)
             valid_posts ==
                 Cardinality({i \in 1..Len(posts.rows) : posts.rows[i].word_count > 0})
             q == low_quality(valid_posts, post_count)
             verdict == IF insufficient(post_count) THEN "ValueError"
                        ELSE IF q.raises THEN "QualityError" ELSE "passed"
         IN /\ validation' =
                   IF verdict = "ValueError"
                   THEN [verdict |-> "ValueError", warning |-> FALSE,
                         post_count |-> post_count, valid_posts |-> 0]
                   ELSE [verdict |-> verdict, warning |-> q.warning,
                         post_count |-> post_count, valid_posts |-> valid_posts]
            /\ conn' = [conn EXCEPT !.validator = conn_close("open")]

----------------------------------------------------------------------------
(* Inputs *)

SeqsUpTo(S, n) == UNION {[1..k -> S] : k \in 0..n}

Url(i) == <<"u", i>>

\* four words between surrounding blanks: below min_word_count
ShortText == <<" ">> \o Words(4) \o <<" ">>

\* five words, one gap of two blanks
LongText == <<"w", " ", " ">> \o Words(4)

\* the records of the raw file; a record without text has no other cell
\* either apart from its post_url
RawRecords ==
    {r \in [post_url : {Url(1), Url(2)},
            post_text : {NaN, ShortText, LongText},
            post_type : {NaN, Pic},
            notes_count : {<<>>, <<12>>},
            tags : {NaNTags, ListOf(<<Art, art>>)}] :
        isna(r.post_text) =>
            (isna(r.post_type) /\ r.notes_count = <<>> /\ r.tags = NaNTags)}

\* the raw file the scraper wrote: with its tags column, or without it
RawFiles ==
    {[columns |-> RawColumns, rows |-> rows] : rows \in SeqsUpTo(RawRecords, MaxRecords)}
    \cup
    {[columns |-> RawColumns \ {"tags"}, rows |-> rows] :
        rows \in SeqsUpTo({r \in RawRecords : r.tags = NaNTags /\ r.post_type = NaN},
                          MaxRecords)}

OneRecordFile(notes, payload) ==
    [columns |-> RawColumns,
     rows |-> <<[post_url |-> Url(1), post_text |-> LongText, post_type |-> Pic,
                 notes_count |-> notes, tags |-> payload]>>]

TagPayloads ==
    {NaNTags, BadList}
    \cup {ListOf(items) : items \in SeqsUpTo(TagStrings, MaxTags)}
    \cup {DelimOf(items) : items \in SeqsUpTo(TagStrings, MaxTags) \ {<<>>}}

NotesCells == {<<>>} \cup {<<n>> : n \in 0..MaxNotes}

\* the row the cleaner writes for a post with five words
CleanedRow(url, payload) ==
    [to_csv(clean_all(OneRecordFile(<<>>, payload), 0).df).rows[1] EXCEPT !.post_url = url]

SnapRecords ==
    {CleanedRow(Url(1), ListOf(<<Art, art>>)),
     CleanedRow(Url(1), EmptyList),
     CleanedRow(Url(2), DelimOf(<<Design, art>>))}

\* cleaned files a load run may find
Snapshots == {[exists |-> TRUE, rows |-> rows] : rows \in SeqsUpTo(SnapRecords, MaxSnapRows)}

\* a store after a load of n posts, the first k of them with words
StorePosts(n, k) ==
    to_sql(NoTable,
           [i \in 1..n |->
               [post_url |-> Url(i), post_text |-> IF i <= k THEN <<"w">> ELSE <<" ">>,
                post_type |-> photo,
                notes_count |-> 0, word_count |-> IF i <= k THEN 1 ELSE 0,
                tag_count |-> 0, tags_str |-> NaN,
                engagement_level |-> "no_engagement"]])

----------------------------------------------------------------------------
(* The pipeline: scrape_task >> clean_task >> load_task >> validate_task.  *)
(* A task runs once its upstream task has succeeded.                       *)

NotCleaned == [status |-> "none", warning |-> FALSE, steps |-> <<>>]

NoTags == [seq |-> 0, rows |-> {}]

NoConn == [loader |-> "none", validator |-> "none"]

InitStages ==
    /\ df = NoFrame
    /\ cleanResult = NotCleaned
    /\ cleanedFile = NoFile
    /\ loadLog = <<>>
    /\ validation = NotValidated
    /\ conn = NoConn

InitStore ==
    /\ dbExists = FALSE
    /\ posts = NoTable
    /\ tags = NoTags
    /\ post_tags = {}
    /\ summary_statistics = <<>>

Init ==
    /\ rawFile \in RawFiles
    /\ InitStages
    /\ InitStore

CleanTask ==
    /\ cleanResult.status = "none"
    /\ clean_tumblr_data
    /\ UNCHANGED <<rawFile, dbExists, posts, tags, post_tags, summary_statistics,
                   loadLog, validation, conn>>

LoadTask ==
    /\ cleanResult.status = "ok"
    /\ loadLog = <<>>
    /\ load_to_database(cleanedFile, "none")
    /\ UNCHANGED <<rawFile, df, cleanResult, cleanedFile, validation>>

ValidateStore ==
    /\ validation.verdict = "none"
    /\ validate_pipeline
    /\ UNCHANGED <<rawFile, df, cleanResult, cleanedFile, dbExists, posts, tags,
                   post_tags, summary_statistics, loadLog>>

ValidateTask ==
    /\ loadLog # <<>>
    /\ loadLog[Len(loadLog)].error = "none"
    /\ ValidateStore

Next == CleanTask \/ LoadTask \/ ValidateTask

Spec == Init /\ [][Next]_vars

\* the pipeline on one post whose tags payload varies
InitTags ==
    /\ rawFile \in {OneRecordFile(<<>>, p) : p \in TagPayloads}
    /\ InitStages
    /\ InitStore

SpecTags == InitTags /\ [][Next]_vars

\* the pipeline on one post whose notes_count varies
InitEngagement ==
    /\ rawFile \in {OneRecordFile(c, NaNTags) : c \in NotesCells}
    /\ InitStages
    /\ InitStore

SpecEngagement == InitEngagement /\ [][Next]_vars

\* loader main(), run again and again on the cleaned file it finds
InitLoad ==
    /\ rawFile = [columns |-> RawColumns, rows |-> <<>>]
    /\ InitStages
    /\ InitStore

LoaderMain(file) ==
    /\ Len(loadLog) < MaxRuns
    /\ cleanedFile' = file
    /\ load_to_database(file, "none")
    /\ UNCHANGED <<rawFile, df, cleanResult, validation>>

NextLoad == \E file \in Snapshots \cup {NoFile} : LoaderMain(file)

SpecLoad == InitLoad /\ [][NextLoad]_vars

\* the cleaned records of a load run whose tags payloads are good and bad
LinkRecords ==
    {CleanedRow(Url(1), BadList),
     CleanedRow(Url(1), ListOf(<<Art, art>>)),
     CleanedRow(Url(2), BadList),
     CleanedRow(Url(2), DelimOf(<<Design, art>>)),
     CleanedRow(Url(2), EmptyList)}

LinkSnapshots ==
    {[exists |-> TRUE, rows |-> rows] : rows \in SeqsUpTo(LinkRecords, MaxLinkRows)}

\* one run of the load stage into the new store
LoadOnce(file) ==
    /\ loadLog = <<>>
    /\ LoaderMain(file)

NextLinks == \E file \in LinkSnapshots : LoadOnce(file)

SpecLinks == InitLoad /\ [][NextLinks]_vars

\* the cleaned files of the runs in which a step may raise
FaultFiles == {NoFile} \cup {[exists |-> TRUE, rows |-> rows] : rows \in SeqsUpTo(SnapRecords, 1)}

\* a run of the load stage in which the step fault raises
FaultyLoad(file, fault) ==
    /\ Len(loadLog) < MaxFaultRuns
    /\ cleanedFile' = file
    /\ load_to_database(file, fault)
    /\ UNCHANGED <<rawFile, df, cleanResult, validation>>

NextFaults ==
    \/ \E file \in FaultFiles : \E fault \in LoadFaults : FaultyLoad(file, fault)
    \/ ValidateTask

SpecFaults == InitLoad /\ [][NextFaults]_vars

\* validate_pipeline on a store that holds n posts, or on no store
InitValidate ==
    /\ rawFile = [columns |-> RawColumns, rows |-> <<>>]
    /\ InitStages
    /\ tags = NoTags
    /\ post_tags = {}
    /\ summary_statistics = <<>>
    /\ \/ /\ dbExists = FALSE
          /\ posts = NoTable
       \/ /\ dbExists = TRUE
          /\ \E n \in 0..MaxStorePosts : \E k \in 0..n : posts = StorePosts(n, k)

NextValidate == ValidateStore

SpecValidate == InitValidate /\ [][NextValidate]_vars

----------------------------------------------------------------------------
(* Vocabulary of the properties *)

RawRows == 1..Len(rawFile.rows)

\* raw record i (in input order) is a record of the cleaned output
Present(i) == \E k \in 1..Len(df.rows) : df.rows[k].idx = i - 1

SameUrl(i, j) == rawFile.rows[i].post_url = rawFile.rows[j].post_url

FirstOfUrl(i) == \A h \in 1..(i - 1) : ~SameUrl(h, i)

\* the number of words of raw record i, 0 when it has no text
RawWordCount(i) ==
    IF rawFile.rows[i].post_text = NaN THEN 0 ELSE Len(split(rawFile.rows[i].post_text))

\* the canonical tags of a list of tag strings, in first-seen order
RECURSIVE CanonicalOf(_, _)
CanonicalOf(items, seen) ==
    IF items = <<>> THEN <<>>
    ELSE LET t == lower(strip(Head(items)))
         IN IF t = <<>> \/ t \in seen THEN CanonicalOf(Tail(items), seen)
            ELSE <<t>> \o CanonicalOf(Tail(items), seen \cup {t})

\* the canonical tags of a payload: none for a missing or unparseable one
CanonicalTags(p) == IF p.kind \in {"list", "delim"} THEN CanonicalOf(p.items, {}) ELSE <<>>

Range(f) == {f[x] : x \in DOMAIN f}

OkRuns == SelectSeq(loadLog, LAMBDA e : e.error = "none")

LastRun == loadLog[Len(loadLog)]

----------------------------------------------------------------------------
(* C1 *)

\* C1 (as claimed): of two raw records that share post_url, exactly one is in
\* the cleaned output, and it is the earlier one, whatever their texts are.
C1_DedupExactlyOne ==
    cleanResult.status = "ok" =>
        \A i, j \in RawRows : (i < j /\ SameUrl(i, j)) => (Present(i) /\ ~Present(j))

\* C1 (amended): of two raw records that share post_url, the later one is never
\* in the cleaned output, so at most one of them is; the earlier one is in it
\* exactly when it is the first record of that post_url and its text has
\* min_word_count to max_word_count words.
C1_DedupFirstWins ==
    cleanResult.status = "ok" =>
        \A i, j \in RawRows : (i < j /\ SameUrl(i, j)) =>
            /\ ~Present(j)
            /\ Present(i) <=> (/\ FirstOfUrl(i)
                               /\ RawWordCount(i) >= 5
                               /\ RawWordCount(i) <= 10000)

C1_Witness ==
    /\ cleanResult.status = "ok"
    /\ \E i, j \in RawRows :
          /\ i < j
          /\ SameUrl(i, j)
          /\ rawFile.rows[i] # rawFile.rows[j]
          /\ RawWordCount(j) >= 5
          /\ Present(i)

----------------------------------------------------------------------------
(* C2 *)

\* C2: two load runs in a row on the same cleaned snapshot, both completed,
\* leave the same posts and the same row counts of posts, tags and post_tags.
C2_IdempotentReload ==
    \A i \in 1..(Len(loadLog) - 1) :
        (/\ loadLog[i].error = "none"
         /\ loadLog[i + 1].error = "none"
         /\ loadLog[i].csv = loadLog[i + 1].csv)
        => /\ Range(loadLog[i].posts) = Range(loadLog[i + 1].posts)
           /\ loadLog[i].n_posts = loadLog[i + 1].n_posts
           /\ loadLog[i].n_tags = loadLog[i + 1].n_tags
           /\ loadLog[i].n_post_tags = loadLog[i + 1].n_post_tags

C2_Witness ==
    /\ Len(loadLog) >= 2
    /\ loadLog[1].error = "none"
    /\ loadLog[2].error = "none"
    /\ loadLog[1].csv = loadLog[2].csv
    /\ loadLog[2].n_posts >= 2
    /\ Len(posts.rows) = loadLog[2].n_posts

----------------------------------------------------------------------------
(* C3 *)

\* C3 (as claimed): after a completed load run, every canonical tag of every
\* persisted record of the snapshot has exactly one row in tags and exactly one
\* link from that post in post_tags.
C3_TagUpsertComplete ==
    (loadLog # <<>> /\ LastRun.error = "none") =>
        \A k \in 1..Len(LastRun.csv.rows) :
            LET rec == LastRun.csv.rows[k]
            IN (\E i \in 1..Len(posts.rows) : posts.rows[i].post_url = rec.post_url) =>
                  \A t \in Range(CanonicalTags(rec.tags)) :
                      /\ Cardinality({r \in tags.rows : r.tag_name = t}) = 1
                      /\ "id" \in posts.columns
                      /\ \E r \in tags.rows :
                            /\ r.tag_name = t
                            /\ \E i \in 1..Len(posts.rows) :
                                  /\ posts.rows[i].post_url = rec.post_url
                                  /\ <<posts.rows[i].id, r.id>> \in post_tags

----------------------------------------------------------------------------
(* C4 *)

\* C4 (as claimed): after any load runs, on any cleaned file, also one that
\* repeats a post_url, no two rows of posts share post_url.
C4_PostUrlUnique ==
    (loadLog # <<>> /\ LastRun.error = "none") =>
        \A i, j \in 1..Len(posts.rows) :
            posts.rows[i].post_url = posts.rows[j].post_url => i = j

----------------------------------------------------------------------------
(* C5 *)

ValidPosts == Cardinality({i \in 1..Len(posts.rows) : posts.rows[i].word_count > 0})

\* C5: on an existing store validate_pipeline fails with the insufficient-data
\* error exactly when there are fewer than 100 posts; from 100 posts on it
\* passes, and a quality ratio below 0.8 only sets the warning.
C5_ValidationVerdict ==
    (dbExists /\ validation.verdict # "none") =>
        /\ validation.verdict = "ValueError" <=> Len(posts.rows) < 100
        /\ Len(posts.rows) >= 100 =>
              /\ validation.verdict = "passed"
              /\ validation.warning <=> (10 * ValidPosts < 8 * Len(posts.rows))

C5_Witness ==
    /\ dbExists
    /\ Len(posts.rows) = 100
    /\ ValidPosts = 79
    /\ validation.verdict = "passed"
    /\ validation.warning

----------------------------------------------------------------------------
(* C6 *)

\* C6 (as claimed): tag_count is the number of distinct canonical tags of the
\* payload and tags_str is those tags, comma-joined, in first-seen order.
C6_TagExtraction ==
    cleanResult.status = "ok" =>
        \A k \in 1..Len(df.rows) :
            LET canon == CanonicalTags(rawFile.rows[df.rows[k].idx + 1].tags)
            IN /\ df.rows[k].tag_count = Len(canon)
               /\ df.rows[k].tags_str \in {join(<<",">>, canon), join(<<",", " ">>, canon)}

----------------------------------------------------------------------------
(* C7 *)

\* C7 (as claimed): a raw file without a tags column is cleaned without an
\* error, and every cleaned record has tag_count = 0 and tags_str = "".
C7_MissingTagsColumn ==
    ("tags" \notin rawFile.columns /\ cleanResult.status # "none") =>
        /\ cleanResult.status = "ok"
        /\ \A k \in 1..Len(df.rows) :
              df.rows[k].tag_count = 0 /\ df.rows[k].tags_str = <<>>

----------------------------------------------------------------------------
(* C8 *)

\* C8: the engagement level of a cleaned record is no_engagement for an absent
\* notes_count or 0, low below 10, medium from 10 to 99, high from 100 on.
C8_EngagementLevels ==
    cleanResult.status = "ok" =>
        \A k \in 1..Len(df.rows) :
            LET cell == rawFile.rows[df.rows[k].idx + 1].notes_count
                n == IF Len(cell) = 0 THEN 0 ELSE Head(cell)
                level == df.rows[k].engagement_level
            IN /\ level \in {"no_engagement", "low", "medium", "high"}
               /\ Len(cell) = 0 => level = "no_engagement"
               /\ n = 0 => level = "no_engagement"
               /\ (0 < n /\ n < 10) => level = "low"
               /\ (10 <= n /\ n < 100) => level = "medium"
               /\ n >= 100 => level = "high"

C8_Witness ==
    /\ cleanResult.status = "ok"
    /\ Len(df.rows) = 1
    /\ rawFile.rows[1].notes_count = <<100>>
    /\ df.rows[1].engagement_level = "high"

----------------------------------------------------------------------------
(* C9 *)

\* no cleaning step raises on the raw file
StepsComplete ==
    /\ ~remove_empty_posts_raises(load_data(rawFile))
    /\ ~handle_missing_values_raises(load_data(rawFile))

----------------------------------------------------------------------------
(* C10 *)

\* C10: summary_statistics holds one row per completed load run, in run order,
\* the k-th still being the row that the k-th completed run computed from its
\* posts table: rows are added, never changed or removed.
C10_SummaryAppendOnly ==
    /\ Len(summary_statistics) = Len(OkRuns)
    /\ \A k \in 1..Len(summary_statistics) :
          /\ summary_statistics[k].id = k
          /\ summary_statistics[k].total_posts = OkRuns[k].n_posts

C10_Witness ==
    /\ Len(loadLog) >= 2
    /\ Len(summary_statistics) = 2
    /\ summary_statistics[1].total_posts # summary_statistics[2].total_posts

----------------------------------------------------------------------------
(* C11 *)

\* C11 (as claimed): after a completed load run the posts table still has the
\* columns and the UNIQUE constraint that create_tables declared, and every
\* persisted post has an id of its own that the lookup by post_url reads.
C11_PostsSchemaKept ==
    (loadLog # <<>> /\ LastRun.error = "none") =>
        /\ posts.columns = {"id"} \cup posts_columns \cup {"created_at"}
        /\ "post_url" \in posts.unique
        /\ \A i \in 1..Len(posts.rows) :
              LET result == select_post_id(posts, posts.rows[i].post_url)
              IN ~result.raises /\ result.found

----------------------------------------------------------------------------
(* C16 *)

\* C16: every record that clean_all returns has word_count equal to the number
\* of whitespace-delimited tokens of its post_text and 5 <= word_count <= 10000;
\* and every raw record that is the first of its post_url, has a text that is
\* neither missing nor empty, and has 5 to 10000 words is in the output,
\* whatever its notes_count and tags are.  (The texts of the model have up to
\* five words: the lower end of the band is the one that records cross.)
C16_WordCountBand ==
    cleanResult.status = "ok" =>
        /\ \A k \in 1..Len(df.rows) :
              /\ df.rows[k].word_count = Len(split(df.rows[k].post_text))
              /\ df.rows[k].word_count >= 5
              /\ df.rows[k].word_count <= 10000
        /\ \A i \in RawRows :
              (/\ FirstOfUrl(i)
               /\ notna(rawFile.rows[i].post_text)
               /\ Len(rawFile.rows[i].post_text) > 0
               /\ RawWordCount(i) >= 5
               /\ RawWordCount(i) <= 10000)
              => Present(i)

C16_Witness ==
    /\ cleanResult.status = "ok"
    /\ \E i, j \in RawRows :
          /\ RawWordCount(i) = 5
          /\ Present(i)
          /\ rawFile.rows[i].notes_count = <<>>
          /\ FirstOfUrl(j)
          /\ RawWordCount(j) = 4
          /\ ~Present(j)

----------------------------------------------------------------------------
(* C13 *)

\* raw record i has a text, neither missing nor empty
HasText(i) == notna(rawFile.rows[i].post_text) /\ Len(rawFile.rows[i].post_text) > 0

\* C13 (as claimed): records without text are dropped before deduplication, so
\* of the records of one post_url that have a text the first one is
\* deduplication's choice: it is in the output when its word count is in the
\* band, also when an earlier record of that post_url had no text.
C13_EmptyBeforeDedup ==
    cleanResult.status = "ok" =>
        \A j \in RawRows :
            (/\ HasText(j)
             /\ \A i \in 1..(j - 1) : SameUrl(i, j) => ~HasText(i)
             /\ RawWordCount(j) >= 5
             /\ RawWordCount(j) <= 10000)
            => Present(j)

\* C13 (amended): clean_all runs (1) deduplication by post_url keeping the
\* first, (2) the drop of records without text, (3) missing-value defaults,
\* (4) text cleanup, (5) post-type standardization, (6) derived features,
\* (7) the word-count band filter, in this order, stopping at a step that
\* raises; deduplication therefore sees the records without text: a record is
\* never in the output when an earlier record has its post_url, with or
\* without text.
C13_DedupBeforeEmpty ==
    cleanResult.status # "none" =>
        /\ Len(cleanResult.steps) <= 7
        /\ cleanResult.steps =
              SubSeq(<<"remove_duplicates", "remove_empty_posts", "handle_missing_values",
                       "clean_text", "standardize_post_types", "add_derived_features",
                       "filter_quality_posts">>, 1, Len(cleanResult.steps))
        /\ cleanResult.status = "ok" =>
              /\ Len(cleanResult.steps) = 7
              /\ \A i, j \in RawRows : (i < j /\ SameUrl(i, j)) => ~Present(j)

C13_Witness ==
    /\ cleanResult.status = "ok"
    /\ \E i, j \in RawRows :
          /\ i < j
          /\ SameUrl(i, j)
          /\ ~HasText(i)
          /\ RawWordCount(j) = 5
          /\ ~Present(j)

----------------------------------------------------------------------------
(* C14 *)

\* the file without the records whose tags payload does not parse
WithoutBadPayloads(file) ==
    [file EXCEPT !.rows = SelectSeq(@, LAMBDA rec : ~parse_tags(rec.tags).raises)]

----------------------------------------------------------------------------
(* C12 *)

\* C12: when a run of the load stage or of the validate stage has returned or
\* raised, the connection it opened is closed, at whichever step it left:
\* reading the file, replacing posts, loading tags, computing the statistics,
\* the verification, the count check; a run that opened none has none.
C12_ConnectionReleased ==
    /\ conn.loader # "open"
    /\ conn.validator # "open"
    /\ loadLog # <<>> =>
          conn.loader = IF LastRun.left_at = "connect" THEN "none" ELSE "closed"
    /\ validation.verdict \notin {"none", "FileNotFoundError"} => conn.validator = "closed"

C12_Witness ==
    /\ Len(loadLog) = 2
    /\ loadLog[1].left_at = "to_sql"
    /\ loadLog[1].error = "OperationalError"
    /\ loadLog[2].left_at = "return"
    /\ conn.loader = "closed"
    /\ validation.verdict = "ValueError"
    /\ conn.validator = "closed"

----------------------------------------------------------------------------
(* C15 *)

\* C15: after a completed load run that follows an earlier run into the same
\* store, every row of tags is a canonical tag of a record of the file of the
\* latest run, and every link of post_tags joins a post of that file to a tag
\* of that file.  (No run stores a tag, see C3 and C11: the tables that
\* load_tags empties were empty before.)
C15_NoStaleTags ==
    (Len(loadLog) >= 2 /\ LastRun.error = "none") =>
        /\ \A r \in tags.rows :
              \E k \in 1..Len(LastRun.csv.rows) :
                  r.tag_name \in Range(CanonicalTags(LastRun.csv.rows[k].tags))
        /\ \A link \in post_tags :
              /\ \E r \in tags.rows : r.id = link[2]
              /\ "id" \in posts.columns
              /\ \E i \in 1..Len(posts.rows) : posts.rows[i].id = link[1]

\* a tag or a link is stored by some run
C15_SomeTagStored == tags.rows # {} \/ post_tags # {}

====
